---- MODULE Spec2Model ----
(***************************************************************************)
(* Model of pion/server.py: the UDP broadcast Listener                     *)
(* (UDPBroadcastServer.start), the Publisher (_broadcast_loop), the        *)
(* Dispatcher (_receive_loop + process_incoming_state), the navigation     *)
(* primitive smart_goto and the lifecycle calls start()/stop() of          *)
(* SwarmCommunicator.                                                      *)
(***************************************************************************)
EXTENDS Integers, Sequences, FiniteSets, TLC

(***************************************************************************)
(* Bounds of the model.                                                    *)
(***************************************************************************)
\* Number of datagrams the network delivers to this agent in one run.
MaxPackets == 2
\* The ghost counters of navigation ticks and of work done after stop()
\* saturate at this value (they never block a loop).
MaxCount == 2
MaxBacklog == 5

(***************************************************************************)
(* Command codes, server.py lines 12-18.                                   *)
(***************************************************************************)
CMD_SET_SPEED == 1
CMD_GOTO == 2
CMD_TAKEOFF == 3
CMD_LAND == 4
CMD_ARM == 5
CMD_DISARM == 6
CMD_SMART_GOTO == 7
\* Code 8 (SetLed) is on the wire; server.py defines no constant for it.
SetLedCode == CMD_SMART_GOTO + 1

(***************************************************************************)
(* Identities.  LocalIp is control_object.ip; a datagram's target_ip is    *)
(* NoTarget when the attribute is missing or empty (the test               *)
(* `hasattr(state, "target_ip") and state.target_ip` is false for both).   *)
(***************************************************************************)
NoTarget == ""
LocalIp == "10.0.0.1"
ForeignIp == "10.0.0.2"
Targets == {NoTarget, LocalIp, ForeignIp}

\* Wire ids: the agent's own (its broadcast looped back) and two peers.
OwnId == 1
PeerIds == {2, 3}
Ids == {OwnId} \cup PeerIds

\* Payloads: a pose of a heartbeat ([ip_num] + position + attitude), the
\* four arguments of a command, and payloads of the wrong length.
PoseA == <<9, 0, 0, 0, 0, 0, 0>>
PoseB == <<9, 1, 1, 0, 0, 0, 0>>
Args4 == <<1, 2, 3, 4>>
Args3 == <<1, 2, 3>>
NoArgs == << >>

Datagram(i, c, t, p) == [id |-> i, command |-> c, target_ip |-> t, data |-> p]

\* The decoded datagrams (DDatagram payloads) the Dispatcher is exercised on.
Heartbeats == {Datagram(i, 0, NoTarget, PoseA) : i \in Ids}
           \cup {Datagram(2, 0, NoTarget, PoseB)}
\* Commands with arguments: with four values for every target, with three
\* values (a payload of the wrong length) as a broadcast.
ArgCommands == {Datagram(3, c, t, Args4) :
                  c \in {CMD_SET_SPEED, CMD_GOTO, CMD_SMART_GOTO, SetLedCode},
                  t \in Targets}
          \cup {Datagram(3, c, NoTarget, Args3) :
                  c \in {CMD_SET_SPEED, CMD_GOTO, CMD_SMART_GOTO, SetLedCode}}
\* Commands without arguments: two of them for every target, two as a
\* broadcast.
PlainCommands == {Datagram(3, c, t, NoArgs) :
                  c \in {CMD_TAKEOFF, CMD_LAND}, t \in Targets}
          \cup {Datagram(3, c, NoTarget, NoArgs) : c \in {CMD_ARM, CMD_DISARM}}
\* A command that takes no argument, sent with a payload all the same.
PaddedCommands == {Datagram(3, CMD_LAND, NoTarget, Args4)}
Datagrams == Heartbeats \cup ArgCommands \cup PlainCommands \cup PaddedCommands

\* The traffic of the concurrent scenario: two heartbeats of one peer and a
\* broadcast smart_goto command.
WireDatagrams == {Datagram(2, 0, NoTarget, PoseA), Datagram(2, 0, NoTarget, PoseB),
                  Datagram(3, CMD_SMART_GOTO, NoTarget, Args4)}

\* A UDP packet: what read_serialized makes of it.
GarbagePayload == Datagram(0, 0, NoTarget, NoArgs)
Packet(v, d) == [valid |-> v, payload |-> d]
Packets == {Packet(TRUE, d) : d \in WireDatagrams} \cup {Packet(FALSE, GarbagePayload)}

\* Velocities compute_swarm_velocity may return (2-vectors).
Vel2 == {<<0, 0>>, <<1, 1>>}
Zero4 == <<0, 0, 0, 0>>

SeqsUpTo(S, n) == UNION {[1..k -> S] : k \in 0..n}
Bump(n) == IF n < MaxCount THEN n + 1 ELSE MaxCount
Last(s) == s[Len(s)]

\* The calls of start() followed: each creates a Publisher, a Dispatcher and
\* a Listener thread of its own (lines 160-163, 189-190).
Runs == {1, 2}

\* The thread running the Dispatcher created by call r of start().
DispatcherThread(r) == IF r = 1 THEN "dispatcher" ELSE "dispatcher2"
DispatcherThreads == {DispatcherThread(r) : r \in Runs}
RunOf(t) == CHOOSE r \in Runs : DispatcherThread(r) = t

\* The threads that can run smart_goto: a caller thread and the Dispatchers.
Threads == {"caller"} \cup DispatcherThreads

VARIABLES
    running,          \* SwarmCommunicator.running
    serverRunning,    \* UDPBroadcastServer.running
    receive_queue,    \* SwarmCommunicator.receive_queue (queue.Queue)
    env,              \* SwarmCommunicator.env : id -> stored datagram
    lpc,              \* position of the Listener of each call of start()
    ppc,              \* position of the Publisher of each call of start()
    dpc,              \* position of the Dispatcher of each call of start()
    sg,               \* smart_goto frame of each thread that can run it
    point_reached,    \* control_object.point_reached
    t_speed,          \* control_object.t_speed
    invoked,          \* vehicle operations invoked by the last dispatch
    dispatched,       \* datagrams passed to process_incoming_state, in order
    enqueued,         \* datagrams put on receive_queue, in order
    recvLog,          \* packets recvfrom has returned, in order
    lastSent,         \* the datagram the Publisher sent last (<<>> if none)
    started,          \* start() has been called
    hbAfterStop,      \* heartbeats each Publisher sent since stop() cleared running
    deqAfterStop,     \* datagrams each Dispatcher dispatched since stop() cleared running
    tickGets,         \* datagrams each Dispatcher dequeued since its last loop test
    pubFailed,        \* for each Publisher: a cycle ended in a caught error
    incoming_state,   \* each Dispatcher's local incoming_state (<<>>: none held)
    message,          \* each Listener's local message (<<>>: none held)
    stop_pc,          \* position of the thread that calls stop()
    network           \* the packets the peers send: which, and how many are to come

vars == <<running, serverRunning, receive_queue, env, lpc, ppc, dpc, sg,
          point_reached, t_speed, invoked, dispatched, enqueued, recvLog,
          lastSent, started, hbAfterStop, deqAfterStop, tickGets, pubFailed,
          incoming_state, message, stop_pc, network>>

(***************************************************************************)
(* process_incoming_state, lines 206-266.                                  *)
(***************************************************************************)
Call(op, args) == [op |-> op, args |-> args]

\* Line 217: `hasattr(state, "command") and state.command != 0`
HasCommand(state) == "command" \in DOMAIN state /\ state.command # 0

\* Line 219: `hasattr(state, "target_ip") and state.target_ip`
HasTarget(state) == "target_ip" \in DOMAIN state /\ state.target_ip # NoTarget

\* Mutant: the store is rebuilt around the new entry, dropping the others.
Upsert_Rebuilds(e, key, state) == [k \in {key} |-> state]

\* self.env[key] = state
Upsert(e, key, state) ==
    [k \in (DOMAIN e) \cup {key} |-> IF k = key THEN state ELSE e[k]]

\* Mutant: the takeoff and land branches are swapped.
MappedOp_Swapped(c) ==
    CASE c = CMD_SET_SPEED -> "send_speed"
      [] c = CMD_GOTO -> "goto"
      [] c = CMD_TAKEOFF -> "land"
      [] c = CMD_LAND -> "takeoff"
      [] c = CMD_ARM -> "arm"
      [] c = CMD_DISARM -> "disarm"
      [] c = CMD_SMART_GOTO -> "smart_goto"
      [] OTHER -> "unknown"

\* The operation a command code is mapped to by the if/elif chain.
MappedOp(c) ==
    CASE c = CMD_SET_SPEED -> "send_speed"
      [] c = CMD_GOTO -> "goto"
      [] c = CMD_TAKEOFF -> "takeoff"
      [] c = CMD_LAND -> "land"
      [] c = CMD_ARM -> "arm"
      [] c = CMD_DISARM -> "disarm"
      [] c = CMD_SMART_GOTO -> "smart_goto"
      [] OTHER -> "unknown"

\* `a, b, c, d = state.data` succeeds
Unpacks4(state) == "data" \in DOMAIN state /\ Len(state.data) = 4

\* Mutant: the comparison with the local ip is inverted.
StoredNotRun_Inverted(state) ==
    HasCommand(state) /\ HasTarget(state) /\ state.target_ip = LocalIp

\* Lines 217-225: a command addressed to another agent is stored, not run.
StoredNotRun(state) ==
    HasCommand(state) /\ HasTarget(state) /\ state.target_ip # LocalIp

\* Lines 229-234, 236-241: try/except around set_speed and goto.
GuardedBranch(state, e, fails) ==
    [env |-> e,
     calls |-> IF Unpacks4(state)
               THEN <<Call(MappedOp(state.command), state.data)>> ELSE << >>,
     outcome |-> "return"]

\* Lines 242-253: takeoff, land, arm, disarm are called with no try/except.
UnguardedBranch(state, e, fails) ==
    [env |-> e,
     calls |-> <<Call(MappedOp(state.command), NoArgs)>>,
     outcome |-> IF fails THEN "raise" ELSE "return"]

\* Lines 254-257: smart_goto runs inline, with no try/except.
SmartGotoBranch(state, e, fails) ==
    IF Unpacks4(state)
    THEN [env |-> e, calls |-> <<Call("smart_goto", state.data)>>,
          outcome |-> "smart_goto"]
    ELSE [env |-> e, calls |-> << >>, outcome |-> "raise"]

\* Lines 258-259: any other code is only logged.
UnknownBranch(state, e, fails) ==
    [env |-> e, calls |-> << >>, outcome |-> "return"]

\* Lines 260-266: a heartbeat is stored under its sender id; an object with
\* no id attribute is stored under its ip, and one with neither is dropped.
HeartbeatBranch(state, e) ==
    [env |-> IF "id" \in DOMAIN state THEN Upsert(e, state.id, state)
             ELSE IF "ip" \in DOMAIN state THEN Upsert(e, state.ip, state)
             ELSE e,
     calls |-> << >>, outcome |-> "return"]

\* Lines 217-225; line 224 reads state.id with no hasattr test.
ForeignBranch(state, e) ==
    IF "id" \in DOMAIN state
    THEN [env |-> Upsert(e, state.id, state), calls |-> << >>,
          outcome |-> "return"]
    ELSE [env |-> e, calls |-> << >>, outcome |-> "raise"]

\* The whole method: the new env, the vehicle operations invoked, and how
\* the call ends ("return", "raise": an exception leaves the method,
\* "smart_goto": the method is inside smart_goto).  `fails` says whether the
\* vehicle operation, if one is invoked, raises.
ProcessIncomingState(state, e, fails) ==
    IF HasCommand(state)
    THEN IF StoredNotRun(state) THEN ForeignBranch(state, e)
         ELSE IF state.command \in {CMD_SET_SPEED, CMD_GOTO}
              THEN GuardedBranch(state, e, fails)
         ELSE IF state.command \in {CMD_TAKEOFF, CMD_LAND, CMD_ARM, CMD_DISARM}
              THEN UnguardedBranch(state, e, fails)
         ELSE IF state.command = CMD_SMART_GOTO
              THEN SmartGotoBranch(state, e, fails)
         ELSE UnknownBranch(state, e, fails)
    ELSE HeartbeatBranch(state, e)

(***************************************************************************)
(* smart_goto, lines 279-314.  A frame per thread that can run it.         *)
(***************************************************************************)
\* pc: where the call is; args: (x, y, z, yaw); yawCalls: the arguments of
\* the goto_yaw calls made; updates: update_swarm_control calls made; first:
\* whether the first evaluation of the termination condition found the
\* vehicle within accuracy with its rates within tolerance; overlap: whether
\* another thread was inside smart_goto at some time during this call.
IdleFrame == [pc |-> "off", args |-> NoArgs, yawCalls |-> << >>,
              updates |-> 0, first |-> "none", last |-> "none",
              overlap |-> FALSE]

Active(frame) == frame.pc \in {"begin", "loop", "body", "compute", "hold"}

\* Thread t enters smart_goto(*args).
EnterSmartGoto(frames, t, args) ==
    [u \in Threads |->
        IF u = t
        THEN [pc |-> "begin", args |-> args, yawCalls |-> << >>, updates |-> 0,
              first |-> "none", last |-> "none",
              overlap |-> \E v \in Threads \ {t} : Active(frames[v])]
        ELSE [frames[u] EXCEPT !.overlap = frames[u].overlap \/ Active(frames[u])]]

\* Mutant: goto_yaw is given z, the third argument.
GotoYawArg_PassesZ(args) == args[3]

\* Line 301: goto_yaw(yaw), yaw being the fourth argument.
GotoYawArg(args) == args[4]

\* Lines 306-309: vector_reached(...) and np.allclose(...).
ReachedNow(within_accuracy, rates_still) == within_accuracy /\ rates_still

\* Line 305: while not self.control_object.point_reached.
NavigationContinues(reached) == ~reached

\* Mutant: the third component is passed on instead of being zeroed.
SwarmControlSpeed_KeepsThird(new_vel) == <<new_vel[1], new_vel[2], new_vel[2], 0>>

\* Line 277: t_speed = [new_vel[0], new_vel[1], 0, 0]
SwarmControlSpeed(new_vel) == <<new_vel[1], new_vel[2], 0, 0>>

\* Where the thread goes when its smart_goto call ends.
AfterSmartGoto(t, how) ==
    IF t \in DispatcherThreads
    THEN dpc' = [dpc EXCEPT ![RunOf(t)] =
                    IF how = "raise" THEN "crashed" ELSE "while"]
    ELSE UNCHANGED dpc

\* Lines 299-304: set_v(), goto_yaw(yaw), point_reached = False, sleep.
\* `how` is "ok", or names the vehicle call that raises.
SG_Begin(t) ==
    /\ sg[t].pc = "begin"
    /\ \E how \in {"ok", "set_v", "goto_yaw"} :
         /\ sg' = [sg EXCEPT
                     ![t].pc = IF how = "ok" THEN "loop" ELSE "raised",
                     ![t].yawCalls = IF how = "set_v" THEN << >>
                                     ELSE <<GotoYawArg(sg[t].args)>>]
         /\ point_reached' = (IF how = "ok" THEN FALSE ELSE point_reached)
         /\ IF how = "ok" THEN UNCHANGED dpc ELSE AfterSmartGoto(t, "raise")
    /\ UNCHANGED <<running, serverRunning, receive_queue, env, lpc, ppc,
                   t_speed, invoked, dispatched, enqueued, recvLog, lastSent,
                   started, hbAfterStop, deqAfterStop,
                   tickGets, pubFailed,
                   incoming_state, message,
                   stop_pc, network>>

\* Line 305: while not point_reached.
SG_While(t) ==
    /\ sg[t].pc = "loop"
    /\ sg' = [sg EXCEPT ![t].pc = IF NavigationContinues(point_reached)
                                  THEN "body" ELSE "hold"]
    /\ UNCHANGED <<running, serverRunning, receive_queue, env, lpc, ppc, dpc,
                   point_reached, t_speed, invoked, dispatched, enqueued,
                   recvLog, lastSent, started, hbAfterStop, deqAfterStop,
                   tickGets, pubFailed,
                   incoming_state, message,
                   stop_pc, network>>

\* Lines 306-309: the termination condition of one navigation iteration is
\* evaluated and stored, and update_swarm_control is entered (line 310).
\* `within` is the value of vector_reached(...), `still` that of
\* np.allclose(...).
SG_Body(t) ==
    /\ sg[t].pc = "body"
    /\ \E within \in BOOLEAN, still \in BOOLEAN :
         /\ point_reached' = ReachedNow(within, still)
         /\ sg' = [sg EXCEPT ![t].pc = "compute",
                             ![t].last = IF within /\ still THEN "yes" ELSE "no",
                             ![t].first = IF sg[t].first = "none"
                                          THEN (IF within /\ still THEN "yes" ELSE "no")
                                          ELSE sg[t].first]
    /\ UNCHANGED <<running, serverRunning, receive_queue, env, lpc, ppc, dpc,
                   t_speed, invoked, dispatched, enqueued, recvLog, lastSent,
                   started, hbAfterStop, deqAfterStop, tickGets, pubFailed,
                   incoming_state, message,
                   stop_pc, network>>

\* Lines 276-277 and 311: compute_swarm_velocity, which has been reading
\* self.env since SG_Body, returns `new_vel`; t_speed is written; sleep.
SG_Update(t) ==
    /\ sg[t].pc = "compute"
    /\ \E new_vel \in Vel2 :
         t_speed' = SwarmControlSpeed(new_vel)
    /\ sg' = [sg EXCEPT ![t].pc = "loop",
                        ![t].updates = Bump(sg[t].updates)]
    /\ UNCHANGED <<running, serverRunning, receive_queue, env, lpc, ppc, dpc,
                   point_reached, invoked, dispatched, enqueued, recvLog,
                   lastSent, started, hbAfterStop, deqAfterStop, tickGets,
                   pubFailed,
                   incoming_state, message,
                   stop_pc, network>>

\* Lines 312-314: after the 0.5 s sleep, t_speed = zeros(4) and return.
SG_End(t) ==
    /\ sg[t].pc = "hold"
    /\ t_speed' = Zero4
    /\ sg' = [sg EXCEPT ![t].pc = "returned"]
    /\ AfterSmartGoto(t, "return")
    /\ UNCHANGED <<running, serverRunning, receive_queue, env, lpc, ppc,
                   point_reached, invoked, dispatched, enqueued, recvLog,
                   lastSent, started, hbAfterStop, deqAfterStop,
                   tickGets, pubFailed,
                   incoming_state, message,
                   stop_pc, network>>

(***************************************************************************)
(* The Dispatcher, _receive_loop, lines 184-195.                           *)
(***************************************************************************)
\* Lines 189-190: the Dispatcher starts the Listener thread.
D_Start(r) ==
    /\ dpc[r] = "start"
    /\ dpc' = [dpc EXCEPT ![r] = "while"]
    /\ lpc' = [lpc EXCEPT ![r] = "while"]
    /\ UNCHANGED <<running, serverRunning, receive_queue, env, ppc, sg,
                   point_reached, t_speed, invoked, dispatched, enqueued,
                   recvLog, lastSent, started, hbAfterStop, deqAfterStop,
                   tickGets, pubFailed,
                   incoming_state, message,
                   stop_pc, network>>

\* Mutant: the loops never look at the flag.
LoopContinues_Forever(flag) == TRUE

\* Lines 171 and 191: while self.running.
LoopContinues(flag) == flag

\* Line 191.
D_While(r) ==
    /\ dpc[r] = "while"
    /\ dpc' = [dpc EXCEPT ![r] = IF LoopContinues(running) THEN "check" ELSE "done"]
    /\ tickGets' = [tickGets EXCEPT ![r] = 0]
    /\ UNCHANGED <<running, serverRunning, receive_queue, env, lpc, ppc, sg,
                   point_reached, t_speed, invoked, dispatched, enqueued,
                   recvLog, lastSent, started, hbAfterStop, deqAfterStop,
                   pubFailed,
                   incoming_state, message,
                   stop_pc, network>>

\* Mutant: the queue is never reported empty.
QueueEmpty_Never(q) == FALSE

\* Line 192: self.receive_queue.empty()
QueueEmpty(q) == q = << >>

\* Line 192: if not self.receive_queue.empty(); else line 195, the sleep.
D_Check(r) ==
    /\ dpc[r] = "check"
    /\ dpc' = [dpc EXCEPT ![r] = IF ~QueueEmpty(receive_queue)
                                 THEN "get" ELSE "while"]
    /\ UNCHANGED <<running, serverRunning, receive_queue, env, lpc, ppc, sg,
                   point_reached, t_speed, invoked, dispatched, enqueued,
                   recvLog, lastSent, started, hbAfterStop, deqAfterStop,
                   tickGets, pubFailed,
                   incoming_state, message,
                   stop_pc, network>>

\* Mutant: after a datagram the loop goes back to the queue without sleeping.
AfterDispatch_Drains(outcome) ==
    CASE outcome = "return" -> "check"
      [] outcome = "raise" -> "crashed"
      [] outcome = "smart_goto" -> "in_smart_goto"

\* Mutant: smart_goto is handed to another thread and the method returns.
AfterDispatch_Detached(outcome) ==
    CASE outcome = "return" -> "while"
      [] outcome = "raise" -> "crashed"
      [] outcome = "smart_goto" -> "while"

\* Where the Dispatcher is after process_incoming_state ended this way.
AfterDispatch(outcome) ==
    CASE outcome = "return" -> "while"
      [] outcome = "raise" -> "crashed"
      [] outcome = "smart_goto" -> "in_smart_goto"

\* Line 193: get(block=False) removes the head of the queue into the local
\* incoming_state; on an empty queue it raises queue.Empty, which nothing
\* catches.
D_Get(r) ==
    /\ dpc[r] = "get"
    /\ IF receive_queue = << >>
       THEN /\ dpc' = [dpc EXCEPT ![r] = "crashed"]
            /\ UNCHANGED <<receive_queue, incoming_state, tickGets>>
       ELSE /\ incoming_state' = [incoming_state EXCEPT ![r] = <<Head(receive_queue)>>]
            /\ receive_queue' = Tail(receive_queue)
            /\ dpc' = [dpc EXCEPT ![r] = "process"]
            /\ tickGets' = [tickGets EXCEPT ![r] = Bump(@)]
    /\ UNCHANGED <<running, serverRunning, env, lpc, ppc, sg, point_reached,
                   t_speed, invoked, dispatched, enqueued, recvLog, lastSent,
                   started, hbAfterStop, deqAfterStop, pubFailed, message,
                   stop_pc, network>>

\* Lines 194-195: process_incoming_state(incoming_state), sleep.
D_Process(r) ==
    /\ dpc[r] = "process"
    /\ \E fails \in BOOLEAN :
         LET state == incoming_state[r][1]
             res == ProcessIncomingState(state, env, fails)
         IN /\ dispatched' = Append(dispatched, state)
            /\ env' = res.env
            /\ invoked' = res.calls
            /\ dpc' = [dpc EXCEPT ![r] = AfterDispatch(res.outcome)]
            /\ sg' = IF res.outcome = "smart_goto"
                     THEN EnterSmartGoto(sg, DispatcherThread(r), state.data)
                     ELSE sg
    /\ incoming_state' = [incoming_state EXCEPT ![r] = << >>]
    /\ deqAfterStop' = IF running THEN deqAfterStop
                       ELSE [deqAfterStop EXCEPT ![r] = Bump(@)]
    /\ UNCHANGED <<running, serverRunning, receive_queue, lpc, ppc,
                   point_reached, t_speed, enqueued, recvLog, lastSent,
                   started, hbAfterStop, tickGets, pubFailed, message,
                   stop_pc, network>>

\* Line 202 of stop(): self.running = False.
Stop ==
    /\ stop_pc = "idle"
    /\ running' = FALSE
    /\ stop_pc' = "server"
    /\ UNCHANGED <<serverRunning, receive_queue, env, lpc, ppc, dpc, sg,
                   point_reached, t_speed, invoked, dispatched, enqueued,
                   recvLog, lastSent, started, hbAfterStop, deqAfterStop,
                   tickGets, pubFailed, incoming_state, message, network>>

\* Line 203 of stop(): self.broadcast_server.running = False, and the
\* return; no thread is joined.
StopServer ==
    /\ stop_pc = "server"
    /\ serverRunning' = FALSE
    /\ stop_pc' = "returned"
    /\ UNCHANGED <<running, receive_queue, env, lpc, ppc, dpc, sg,
                   point_reached, t_speed, invoked, dispatched, enqueued,
                   recvLog, lastSent, started, hbAfterStop, deqAfterStop,
                   tickGets, pubFailed, incoming_state, message, network>>

(***************************************************************************)
(* The Dispatcher working through a queue that was filled before its       *)
(* first poll, and stop().                                                 *)
(***************************************************************************)
DispatchInit ==
    /\ running = TRUE
    /\ serverRunning = TRUE
    /\ receive_queue \in SeqsUpTo(Datagrams, MaxPackets)
    /\ enqueued = receive_queue
    /\ recvLog = [k \in 1..Len(receive_queue) |-> Packet(TRUE, receive_queue[k])]
    /\ env = << >>
    /\ lpc = [r \in Runs |-> IF r = 1 THEN "recv" ELSE "idle"]
    /\ ppc = [r \in Runs |-> IF r = 1 THEN "while" ELSE "idle"]
    /\ dpc = [r \in Runs |-> IF r = 1 THEN "while" ELSE "idle"]
    /\ sg = [t \in Threads |-> IdleFrame]
    /\ point_reached = FALSE
    /\ t_speed = Zero4
    /\ invoked = << >>
    /\ dispatched = << >>
    /\ lastSent = << >>
    /\ started = TRUE
    /\ hbAfterStop = [r \in Runs |-> 0]
    /\ deqAfterStop = [r \in Runs |-> 0]
    /\ tickGets = [r \in Runs |-> 0]
    /\ pubFailed = [r \in Runs |-> FALSE]
    /\ incoming_state = [r \in Runs |-> << >>]
    /\ message = [r \in Runs |-> << >>]
    /\ stop_pc = "idle"
    /\ network = [packets |-> Packets, left |-> 0]

DispatchNext ==
    \/ Stop
    \/ StopServer
    \/ D_While(1)
    \/ D_Check(1)
    \/ D_Get(1)
    \/ D_Process(1)
    \/ SG_Begin("dispatcher")
    \/ SG_While("dispatcher")
    \/ SG_Body("dispatcher")
    \/ SG_Update("dispatcher")
    \/ SG_End("dispatcher")

DispatchSpec == DispatchInit /\ [][DispatchNext]_vars

(***************************************************************************)
(* The Listener, UDPBroadcastServer.start, lines 107-123.                  *)
(***************************************************************************)
\* decoder.read_serialized(message) on a packet: (is_valid, payload).
ReadSerialized(packet) == <<packet.valid, packet.payload>>

\* Mutant: Queue(maxsize=MaxPackets); a put on a full queue is dropped.
ListenerPut_Bounded(q, is_valid, payload) ==
    IF is_valid /\ Len(q) < MaxPackets THEN Append(q, payload) ELSE q

\* Mutant: the payload is put on the queue whatever is_valid says.
ListenerPut_Unfiltered(q, is_valid, payload) == Append(q, payload)

\* Lines 117-120: a valid payload is put on the queue, anything else logged.
ListenerPut(q, is_valid, payload) == IF is_valid THEN Append(q, payload) ELSE q

\* Line 111: while self.running.
ListenerContinues(flag) == flag

L_While(r) ==
    /\ lpc[r] = "while"
    /\ lpc' = [lpc EXCEPT ![r] = IF ListenerContinues(serverRunning)
                                 THEN "recv" ELSE "done"]
    /\ UNCHANGED <<running, serverRunning, receive_queue, env, ppc, dpc, sg,
                   point_reached, t_speed, invoked, dispatched, enqueued,
                   recvLog, lastSent, started, hbAfterStop, deqAfterStop,
                   tickGets, pubFailed,
                   incoming_state, message,
                   stop_pc, network>>

\* Line 115: recvfrom blocks until a packet arrives, and returns it.
L_Recv(r) ==
    /\ lpc[r] = "recv"
    /\ network.left > 0
    /\ \E packet \in network.packets :
         /\ recvLog' = Append(recvLog, packet)
         /\ message' = [message EXCEPT ![r] = <<packet>>]
    /\ network' = [network EXCEPT !.left = @ - 1]
    /\ lpc' = [lpc EXCEPT ![r] = "decode"]
    /\ UNCHANGED <<running, serverRunning, receive_queue, env, ppc, dpc, sg,
                   point_reached, t_speed, invoked, dispatched, enqueued,
                   lastSent, started, hbAfterStop, deqAfterStop, tickGets,
                   pubFailed, incoming_state, stop_pc>>

\* Lines 116-120: read_serialized(message), and the put of a valid payload.
L_Put(r) ==
    /\ lpc[r] = "decode"
    /\ LET res == ReadSerialized(message[r][1])
       IN /\ receive_queue' = ListenerPut(receive_queue, res[1], res[2])
          /\ enqueued' = ListenerPut(enqueued, res[1], res[2])
    /\ message' = [message EXCEPT ![r] = << >>]
    /\ lpc' = [lpc EXCEPT ![r] = "while"]
    /\ UNCHANGED <<running, serverRunning, env, ppc, dpc, sg, point_reached,
                   t_speed, invoked, dispatched, recvLog, lastSent, started,
                   hbAfterStop, deqAfterStop, tickGets, pubFailed,
                   incoming_state,
                   stop_pc, network>>

\* Lines 121-123: recvfrom raises; log, sleep 0.1 s, retry.
L_RecvError(r) ==
    /\ lpc[r] = "recv"
    /\ lpc' = [lpc EXCEPT ![r] = "while"]
    /\ UNCHANGED <<running, serverRunning, receive_queue, env, ppc, dpc, sg,
                   point_reached, t_speed, invoked, dispatched, enqueued,
                   recvLog, lastSent, started, hbAfterStop, deqAfterStop,
                   tickGets, pubFailed,
                   incoming_state, message,
                   stop_pc, network>>

(***************************************************************************)
(* The Publisher, _broadcast_loop and UDPBroadcastClient.send.             *)
(***************************************************************************)
\* Lines 59-82: the datagram send() builds from the vehicle's state.
BuildHeartbeat(pose) == Datagram(OwnId, 0, NoTarget, pose)

\* Line 171: while self.running.
P_While(r) ==
    /\ ppc[r] = "while"
    /\ ppc' = [ppc EXCEPT ![r] = IF LoopContinues(running) THEN "body" ELSE "done"]
    /\ UNCHANGED <<running, serverRunning, receive_queue, env, lpc, dpc, sg,
                   point_reached, t_speed, invoked, dispatched, enqueued,
                   recvLog, lastSent, started, hbAfterStop, deqAfterStop,
                   tickGets, pubFailed,
                   incoming_state, message,
                   stop_pc, network>>

\* Mutant: an error in a cycle ends the loop.
AfterBroadcast_Fatal(ok) == IF ok THEN "while" ELSE "crashed"

\* Lines 180-182 and 83-84: where the Publisher is after a cycle; an error
\* at either level is caught and logged, and the loop sleeps and goes on.
AfterBroadcast(ok) == "while"

\* Lines 172-182: build the state, send it (an error at either level is
\* caught and logged), sleep.
P_Body(r) ==
    /\ ppc[r] = "body"
    /\ \E ok \in BOOLEAN :
         /\ lastSent' = IF ok THEN <<BuildHeartbeat(PoseA)>> ELSE lastSent
         /\ hbAfterStop' = IF ok /\ ~running
                           THEN [hbAfterStop EXCEPT ![r] = Bump(@)]
                           ELSE hbAfterStop
         /\ pubFailed' = [pubFailed EXCEPT ![r] = @ \/ ~ok]
         /\ ppc' = [ppc EXCEPT ![r] = AfterBroadcast(ok)]
    /\ UNCHANGED <<running, serverRunning, receive_queue, env, lpc, dpc, sg,
                   point_reached, t_speed, invoked, dispatched, enqueued,
                   recvLog, started, deqAfterStop, tickGets,
                   incoming_state, message,
                   stop_pc, network>>

(***************************************************************************)
(* Calls made by the application: start(), stop(), smart_goto().           *)
(***************************************************************************)
\* Lines 160-162: call r of start() creates both Thread objects and starts
\* the Publisher; start() has no test of an earlier call.  The application
\* makes its calls of start() one after the other.
Start(r) ==
    /\ ppc[r] = "idle"
    /\ \A q \in Runs : q < r => dpc[q] # "idle"
    /\ started' = TRUE
    /\ ppc' = [ppc EXCEPT ![r] = "while"]
    /\ UNCHANGED <<running, serverRunning, receive_queue, env, lpc, dpc, sg,
                   point_reached, t_speed, invoked, dispatched, enqueued,
                   recvLog, lastSent, hbAfterStop, deqAfterStop,
                   tickGets, pubFailed,
                   incoming_state, message,
                   stop_pc, network>>

\* Line 163: the same call starts the Dispatcher, its Publisher running.
StartReceive(r) ==
    /\ ppc[r] # "idle"
    /\ dpc[r] = "idle"
    /\ dpc' = [dpc EXCEPT ![r] = "start"]
    /\ UNCHANGED <<running, serverRunning, receive_queue, env, lpc, ppc, sg,
                   point_reached, t_speed, invoked, dispatched, enqueued,
                   recvLog, lastSent, started, hbAfterStop, deqAfterStop,
                   tickGets, pubFailed,
                   incoming_state, message,
                   stop_pc, network>>

\* A caller thread enters smart_goto(x, y, z, yaw).
SmartGotoCall ==
    /\ sg["caller"].pc \in {"off", "returned", "raised"}
    /\ sg' = EnterSmartGoto(sg, "caller", Args4)
    /\ UNCHANGED <<running, serverRunning, receive_queue, env, lpc, ppc, dpc,
                   point_reached, t_speed, invoked, dispatched, enqueued,
                   recvLog, lastSent, started, hbAfterStop, deqAfterStop,
                   tickGets, pubFailed,
                   incoming_state, message,
                   stop_pc, network>>

(***************************************************************************)
(* The whole agent.  Init is the state after SwarmCommunicator.__init__.   *)
(***************************************************************************)
InitWith(packets, count) ==
    /\ running = TRUE
    /\ serverRunning = TRUE
    /\ receive_queue = << >>
    /\ enqueued = << >>
    /\ recvLog = << >>
    /\ env = << >>
    /\ lpc = [r \in Runs |-> "idle"]
    /\ ppc = [r \in Runs |-> "idle"]
    /\ dpc = [r \in Runs |-> "idle"]
    /\ sg = [t \in Threads |-> IdleFrame]
    /\ point_reached = FALSE
    /\ t_speed = Zero4
    /\ invoked = << >>
    /\ dispatched = << >>
    /\ lastSent = << >>
    /\ started = FALSE
    /\ hbAfterStop = [r \in Runs |-> 0]
    /\ deqAfterStop = [r \in Runs |-> 0]
    /\ tickGets = [r \in Runs |-> 0]
    /\ pubFailed = [r \in Runs |-> FALSE]
    /\ incoming_state = [r \in Runs |-> << >>]
    /\ message = [r \in Runs |-> << >>]
    /\ stop_pc = "idle"
    /\ network = [packets |-> packets, left |-> count]

\* The state after construction; the peers will send MaxPackets packets.
Init == InitWith(Packets, MaxPackets)

Next ==
    \/ \E r \in Runs : Start(r)
    \/ \E r \in Runs : StartReceive(r)
    \/ Stop
    \/ StopServer
    \/ SmartGotoCall
    \/ \E r \in Runs : L_While(r)
    \/ \E r \in Runs : L_Recv(r)
    \/ \E r \in Runs : L_Put(r)
    \/ \E r \in Runs : L_RecvError(r)
    \/ \E r \in Runs : P_While(r)
    \/ \E r \in Runs : P_Body(r)
    \/ \E r \in Runs : D_Start(r)
    \/ \E r \in Runs : D_While(r)
    \/ \E r \in Runs : D_Check(r)
    \/ \E r \in Runs : D_Get(r)
    \/ \E r \in Runs : D_Process(r)
    \/ \E t \in Threads : SG_Begin(t)
    \/ \E t \in Threads : SG_While(t)
    \/ \E t \in Threads : SG_Body(t)
    \/ \E t \in Threads : SG_Update(t)
    \/ \E t \in Threads : SG_End(t)

Spec == Init /\ [][Next]_vars

\* What the scheduler guarantees: every thread that can take a step of its
\* own code eventually does, the thread inside start() included.  No packet
\* is owed by the network, no socket error by the operating system, no call
\* by the application.
FairPublisher(r) == WF_vars(P_While(r)) /\ WF_vars(P_Body(r))

FairDispatcher(r) ==
    /\ WF_vars(D_Start(r)) /\ WF_vars(D_While(r))
    /\ WF_vars(D_Check(r)) /\ WF_vars(D_Get(r)) /\ WF_vars(D_Process(r))

FairListener(r) == WF_vars(L_While(r)) /\ WF_vars(L_Put(r))

FairRun(r) ==
    /\ WF_vars(StartReceive(r))
    /\ FairPublisher(r) /\ FairDispatcher(r) /\ FairListener(r)

FairThread(t) ==
    /\ WF_vars(SG_Begin(t)) /\ WF_vars(SG_While(t))
    /\ WF_vars(SG_Body(t)) /\ WF_vars(SG_Update(t))
    /\ WF_vars(SG_End(t))

\* The thread inside stop() reaches line 203.
FairStop == WF_vars(StopServer)

Fairness ==
    /\ FairStop
    /\ \A r \in Runs : FairRun(r)
    /\ \A t \in Threads : FairThread(t)

FairSpec == Spec /\ Fairness

(***************************************************************************)
(* The three long-lived activities of one call of start() and stop(),      *)
(* without a caller thread in smart_goto, under the scheduler's fairness.  *)
(***************************************************************************)
LifeNext ==
    \/ Start(1)
    \/ StartReceive(1)
    \/ Stop
    \/ StopServer
    \/ L_While(1)
    \/ L_Recv(1)
    \/ L_Put(1)
    \/ L_RecvError(1)
    \/ P_While(1)
    \/ P_Body(1)
    \/ D_Start(1)
    \/ D_While(1)
    \/ D_Check(1)
    \/ D_Get(1)
    \/ D_Process(1)
    \/ SG_Begin("dispatcher")
    \/ SG_While("dispatcher")
    \/ SG_Body("dispatcher")
    \/ SG_Update("dispatcher")
    \/ SG_End("dispatcher")

LifeSpec ==
    Init /\ [][LifeNext]_vars /\ FairStop /\ FairRun(1) /\ FairThread("dispatcher")

(***************************************************************************)
(* start() called again.  The threads of the first call are running, the   *)
(* Listener has put a burst of datagrams on the queue and waits in         *)
(* recvfrom for a packet that does not come; the application may call      *)
(* start() a second time and stop(), in either order.                      *)
(***************************************************************************)
WireHeartbeats == {d \in WireDatagrams : d.command = 0}

\* The state after one call of start() and a burst of datagrams drawn from
\* `payloads`, none dispatched yet.
BurstInit(payloads) ==
    /\ running = TRUE
    /\ serverRunning = TRUE
    /\ receive_queue \in SeqsUpTo(payloads, MaxPackets)
    /\ enqueued = receive_queue
    /\ recvLog = [k \in 1..Len(receive_queue) |-> Packet(TRUE, receive_queue[k])]
    /\ env = << >>
    /\ lpc = [r \in Runs |-> IF r = 1 THEN "recv" ELSE "idle"]
    /\ ppc = [r \in Runs |-> IF r = 1 THEN "while" ELSE "idle"]
    /\ dpc = [r \in Runs |-> IF r = 1 THEN "while" ELSE "idle"]
    /\ sg = [t \in Threads |-> IdleFrame]
    /\ point_reached = FALSE
    /\ t_speed = Zero4
    /\ invoked = << >>
    /\ dispatched = << >>
    /\ lastSent = << >>
    /\ started = TRUE
    /\ hbAfterStop = [r \in Runs |-> 0]
    /\ deqAfterStop = [r \in Runs |-> 0]
    /\ tickGets = [r \in Runs |-> 0]
    /\ pubFailed = [r \in Runs |-> FALSE]
    /\ incoming_state = [r \in Runs |-> << >>]
    /\ message = [r \in Runs |-> << >>]
    /\ stop_pc = "idle"
    /\ network = [packets |-> Packets, left |-> 0]

\* The burst: heartbeats of one peer, all alike.
RestartDatagrams == {d \in WireHeartbeats : d.data = PoseA}

RestartInit == BurstInit(RestartDatagrams)

RestartNext ==
    \/ \E r \in Runs : Start(r)
    \/ \E r \in Runs : StartReceive(r)
    \/ Stop
    \/ StopServer
    \/ \E r \in Runs : L_While(r)
    \/ \E r \in Runs : P_While(r)
    \/ \E r \in Runs : P_Body(r)
    \/ \E r \in Runs : D_Start(r)
    \/ \E r \in Runs : D_While(r)
    \/ \E r \in Runs : D_Check(r)
    \/ \E r \in Runs : D_Get(r)
    \/ \E r \in Runs : D_Process(r)

RestartSpec == RestartInit /\ [][RestartNext]_vars

(***************************************************************************)
(* stop() after a burst: the Publisher and the Dispatcher of one call of   *)
(* start() with datagrams queued (a smart_goto command among them), the    *)
(* Listener waiting in recvfrom, under the scheduler's fairness.  start()  *)
(* is not called again in this scenario; RestartSpec follows a second      *)
(* call.                                                                   *)
(***************************************************************************)
\* The burst: heartbeats of one peer and broadcast smart_goto commands.
StopDatagrams == {d \in WireDatagrams : d.data \in {PoseA, Args4}}

StopInit == BurstInit(StopDatagrams)

StopNext ==
    \/ Stop
    \/ StopServer
    \/ P_While(1)
    \/ P_Body(1)
    \/ D_While(1)
    \/ D_Check(1)
    \/ D_Get(1)
    \/ D_Process(1)
    \/ SG_Begin("dispatcher")
    \/ SG_While("dispatcher")
    \/ SG_Body("dispatcher")
    \/ SG_Update("dispatcher")
    \/ SG_End("dispatcher")

StopSpec ==
    /\ StopInit /\ [][StopNext]_vars
    /\ FairStop /\ FairPublisher(1) /\ FairDispatcher(1)
    /\ FairThread("dispatcher")

(***************************************************************************)
(* A backlog: the peers send MaxBacklog packets (heartbeats of one peer    *)
(* and garbage) to the Listener and the Dispatcher of one call of start(). *)
(***************************************************************************)
BacklogPackets ==
    {Packet(TRUE, d) : d \in WireHeartbeats} \cup {Packet(FALSE, GarbagePayload)}

BacklogInit == InitWith(BacklogPackets, MaxBacklog)

BacklogNext ==
    \/ Start(1)
    \/ StartReceive(1)
    \/ L_While(1)
    \/ L_Recv(1)
    \/ L_Put(1)
    \/ L_RecvError(1)
    \/ D_Start(1)
    \/ D_While(1)
    \/ D_Check(1)
    \/ D_Get(1)
    \/ D_Process(1)

BacklogSpec == BacklogInit /\ [][BacklogNext]_vars

(***************************************************************************)
(* Navigation: a caller thread in smart_goto next to the Listener and the  *)
(* Dispatcher of one call of start().                                      *)
(***************************************************************************)
NavNext ==
    \/ Start(1)
    \/ StartReceive(1)
    \/ SmartGotoCall
    \/ L_While(1)
    \/ L_Recv(1)
    \/ L_Put(1)
    \/ L_RecvError(1)
    \/ D_Start(1)
    \/ D_While(1)
    \/ D_Check(1)
    \/ D_Get(1)
    \/ D_Process(1)
    \/ \E t \in {"caller", "dispatcher"} : SG_Begin(t)
    \/ \E t \in {"caller", "dispatcher"} : SG_While(t)
    \/ \E t \in {"caller", "dispatcher"} : SG_Body(t)
    \/ \E t \in {"caller", "dispatcher"} : SG_Update(t)
    \/ \E t \in {"caller", "dispatcher"} : SG_End(t)

\* The peers send heartbeats and broadcast smart_goto commands.
NavPackets == {Packet(TRUE, d) : d \in StopDatagrams}

NavInit == InitWith(NavPackets, MaxPackets)

NavSpec == NavInit /\ [][NavNext]_vars

(***************************************************************************)
(* Properties of the dispatch step.                                        *)
(***************************************************************************)
\* The datagram process_incoming_state was last called with.
LastDispatched == Last(dispatched)

\* The datagram is a command for this agent: its target is absent or is
\* this agent.
ForThisAgent(d) == d.command # 0 /\ d.target_ip \in {NoTarget, LocalIp}
ForAnotherAgent(d) == d.command # 0 /\ d.target_ip \notin {NoTarget, LocalIp}

\* The names of the operations, by command code 1..7.
OperationOf == <<"send_speed", "goto", "takeoff", "land", "arm", "disarm",
                 "smart_goto">>

\* C1: a dequeued datagram with a non-zero command and a target that is
\* present and is not this agent invokes no vehicle operation (smart_goto
\* included), is stored in env under its sender id, and the method returns.
C1_ForeignCommandStoredNotRun ==
    (dispatched # << >> /\ ForAnotherAgent(LastDispatched)) =>
        /\ invoked = << >>
        /\ ~Active(sg["dispatcher"])
        /\ LastDispatched.id \in DOMAIN env
        /\ env[LastDispatched.id] = LastDispatched
        /\ dpc[1] \in {"while", "check", "get", "process", "done"}

C1_Witness ==
    /\ Len(dispatched) = 2
    /\ dispatched[1] = Datagram(3, 0, NoTarget, PoseA)
    /\ dispatched[2] = Datagram(3, CMD_TAKEOFF, ForeignIp, NoArgs)
    /\ env = (3 :> dispatched[2])
    /\ invoked = << >>

\* C2 as stated: a dequeued datagram with command c in 1..7 whose target is
\* absent or this agent invokes the operation mapped to c exactly once, with
\* the payload values in payload order as arguments, and nothing else.
C2_MappedOperationGetsPayload ==
    (/\ dispatched # << >>
     /\ ForThisAgent(LastDispatched)
     /\ LastDispatched.command \in 1..7) =>
        invoked = <<Call(OperationOf[LastDispatched.command], LastDispatched.data)>>

\* C2 amended: for command c in 1..7 with target absent or this agent,
\* takeoff, land, arm and disarm (3..6) are invoked once with no argument,
\* whatever the payload; send_speed, goto and smart_goto (1, 2, 7) are
\* invoked once with the four payload values in payload order when the
\* payload has exactly four values, and nothing is invoked when it has not.
\* No other operation is invoked.
C2_MappedOperationByArity ==
    (/\ dispatched # << >>
     /\ ForThisAgent(LastDispatched)
     /\ LastDispatched.command \in 1..7) =>
        LET c == LastDispatched.command
            p == LastDispatched.data
        IN invoked = IF c \in 3..6 THEN <<Call(OperationOf[c], << >>)>>
                     ELSE IF Len(p) = 4
                          THEN <<Call(OperationOf[c], <<p[1], p[2], p[3], p[4]>>)>>
                          ELSE << >>

C2_Witness ==
    /\ Len(dispatched) = 2
    /\ dispatched[1] = Datagram(3, CMD_LAND, LocalIp, NoArgs)
    /\ dispatched[2] = Datagram(3, CMD_GOTO, LocalIp, Args4)
    /\ invoked = <<Call("goto", <<1, 2, 3, 4>>)>>

\* C3: an error raised while a dispatched command executes (the vehicle
\* operation of any command 1..7 raising, or a payload of the wrong length)
\* never leaves process_incoming_state: the Dispatcher loop is never ended by
\* an exception.
C3_DispatchErrorsCaught == \A r \in Runs : dpc[r] # "crashed"

\* C4: env is last-write-wins and never shrinks: every sender id from which
\* a stored datagram (a heartbeat, or a command addressed to another agent)
\* has been dispatched is a key of env, and env holds under it the most
\* recently dispatched stored datagram of that sender.
IsStored(d) == d.command = 0 \/ ForAnotherAgent(d)

StoredFrom(i) == SelectSeq(dispatched, LAMBDA d : d.id = i /\ IsStored(d))

C4_LastWriteWinsNeverShrinks ==
    \A i \in Ids :
        /\ StoredFrom(i) # << >> => (i \in DOMAIN env /\ env[i] = Last(StoredFrom(i)))
        /\ i \in DOMAIN env => StoredFrom(i) # << >>

C4_Witness ==
    /\ ~running
    /\ Len(dispatched) = 2
    /\ dispatched[1] = Datagram(2, 0, NoTarget, PoseA)
    /\ dispatched[2] = Datagram(2, 0, NoTarget, PoseB)
    /\ env = (2 :> dispatched[2])

\* C9: a datagram with command 8 (SetLed) whose target is absent or this
\* agent makes the Dispatcher invoke the LED operation once with the four
\* payload values.
C9_SetLedInvoked ==
    (/\ dispatched # << >>
     /\ ForThisAgent(LastDispatched)
     /\ LastDispatched.command = SetLedCode
     /\ Len(LastDispatched.data) = 4) =>
        invoked = <<Call("led_control", LastDispatched.data)>>

(***************************************************************************)
(* Properties of smart_goto.                                               *)
(***************************************************************************)
\* The call of thread t has returned, and the first evaluation of the
\* termination condition found the vehicle within accuracy of the target
\* with its rates within tolerance.
ReturnedAtTarget(t) == sg[t].pc = "returned" /\ sg[t].first = "yes"

\* C5 as stated: called with the vehicle already within accuracy (rates
\* within tolerance), smart_goto calls goto_yaw and then makes no navigation
\* iteration: update_swarm_control is never called.
C5_NoIterationAtTarget ==
    \A t \in Threads :
        ReturnedAtTarget(t) =>
            (sg[t].yawCalls = <<sg[t].args[4]>> /\ sg[t].updates = 0)

\* C5 amended: called with the vehicle already within accuracy (rates within
\* tolerance) and no other thread inside smart_goto meanwhile, smart_goto
\* calls goto_yaw(yaw) once and then makes exactly one navigation iteration
\* (one update_swarm_control call, one velocity written) before it returns.
C5_OneIterationAtTarget ==
    \A t \in Threads :
        (ReturnedAtTarget(t) /\ ~sg[t].overlap) =>
            (sg[t].yawCalls = <<sg[t].args[4]>> /\ sg[t].updates = 1)

C5_Witness ==
    /\ ReturnedAtTarget("caller")
    /\ ~sg["caller"].overlap
    /\ sg["caller"].updates = 1
    /\ sg["caller"].yawCalls = <<4>>
    /\ t_speed = Zero4

(***************************************************************************)
(* Properties of the lifecycle.                                            *)
(***************************************************************************)
ListenerOver == \A r \in Runs : lpc[r] \in {"idle", "done"}
PublisherOver == \A r \in Runs : ppc[r] \in {"idle", "done"}
DispatcherOver == \A r \in Runs : dpc[r] \in {"idle", "done", "crashed"}

\* C6: once stop() has set broadcast_server.running to False the Listener
\* loop eventually terminates, even if no further datagram arrives: from any
\* moment after stop() at which n datagrams have been received and the
\* network could still deliver one, the Listener terminates unless another
\* datagram arrives.
C6_ListenerStopsPromptly ==
    \A n \in 0..(MaxPackets - 1) :
        (~serverRunning /\ Len(recvLog) = n) ~> (ListenerOver \/ Len(recvLog) > n)

\* stop() has returned.
StopReturned == stop_pc = "returned"

\* stop() writes the two flags one after the other and waits for no thread:
\* whatever the threads are doing, its next statement can be executed.  Once
\* it has returned both flags are False.  From the moment running is False
\* (which is before the return) each Publisher sends at most one further
\* heartbeat and each Dispatcher dispatches at most one further datagram.
StopEffect ==
    /\ stop_pc = "idle" => ENABLED Stop
    /\ stop_pc = "server" => ~running /\ ENABLED StopServer
    /\ StopReturned => ~running /\ ~serverRunning
    /\ \A r \in Runs : hbAfterStop[r] <= 1
    /\ \A r \in Runs : deqAfterStop[r] <= 1

\* C7 as stated: stop() sets both flags to False and returns without
\* waiting; after it has returned the Publisher sends at most one further
\* heartbeat and the Dispatcher dispatches at most one further datagram,
\* and the Publisher loop and the Dispatcher loop each eventually terminate.
C7_LoopsTerminateAfterStop ==
    /\ []StopEffect
    /\ StopReturned ~> (ppc[1] = "done")
    /\ StopReturned ~> (dpc[1] \in {"done", "crashed"})

\* C7 amended: stop() sets both flags to False and returns without waiting;
\* after it has returned the Publisher sends at most one further heartbeat
\* and the Dispatcher dispatches at most one further datagram; the
\* Publisher loop eventually terminates; the Dispatcher loop eventually
\* terminates unless it stays forever inside a smart_goto call (command 7)
\* that never reaches its target.
C7_LoopsTerminateUnlessNavigating ==
    /\ []StopEffect
    /\ StopReturned ~> (ppc[1] = "done")
    /\ [](StopReturned =>
            (\/ <>(dpc[1] \in {"done", "crashed"})
             \/ <>[](dpc[1] = "in_smart_goto")))

\* stop() returned while both loops of the first start() were at work: each
\* did one more piece of work and left, datagrams still queued.
C7_Witness ==
    /\ StopReturned
    /\ hbAfterStop[1] = 1
    /\ deqAfterStop[1] = 1
    /\ ppc[1] = "done"
    /\ dpc[1] = "done"
    /\ receive_queue # << >>

\* The payloads of the valid packets of a log, in order.
RECURSIVE ValidPayloads(_)
ValidPayloads(log) ==
    IF log = << >> THEN << >>
    ELSE IF Head(log).valid
         THEN <<Head(log).payload>> \o ValidPayloads(Tail(log))
         ELSE ValidPayloads(Tail(log))

\* start() has been called at most once: one Listener.
OneListener == \A r \in Runs : r # 1 => lpc[r] = "idle"

\* Valid packets a Listener has received and not yet put on the queue.
PendingValid ==
    Cardinality({r \in Runs : message[r] # << >> /\ message[r][1].valid})

\* Datagrams a Dispatcher has dequeued and not yet dispatched.
HeldStates == Cardinality({r \in Runs : incoming_state[r] # << >>})

\* C8: a received packet is put on the receive queue if and only if it
\* decodes as valid (the payloads enqueued, followed by the valid packet a
\* Listener still holds, are the valid packets received; in order of
\* reception when there is one Listener), and the Listener loop ends only
\* after its running flag was set to False: no decode failure or socket
\* error ends it.
C8_ListenerFiltersAndSurvives ==
    /\ OneListener => ValidPayloads(recvLog) = enqueued \o ValidPayloads(message[1])
    /\ Len(ValidPayloads(recvLog)) = Len(enqueued) + PendingValid
    /\ \A r \in Runs : lpc[r] = "done" => ~serverRunning

C8_Witness ==
    /\ Len(recvLog) = 2
    /\ ~recvLog[1].valid
    /\ recvLog[2].valid
    /\ enqueued = <<recvLog[2].payload>>
    /\ lpc[1] = "recv"
    /\ serverRunning

(***************************************************************************)
(* Navigation next to the Dispatcher.                                      *)
(***************************************************************************)
DispatcherPolling == dpc[1] \in {"start", "while", "check", "get", "process"}

\* C10 as stated: while smart_goto is executing, whichever thread invoked
\* it, the Dispatcher goes on dequeuing heartbeats and updating env.
C10_DispatcherRunsDuringNavigation ==
    (/\ \E t \in Threads : Active(sg[t])
     /\ dpc[1] \notin {"idle", "crashed"} /\ running) => DispatcherPolling

\* C10 amended: smart_goto holds only the thread that invoked it.  Invoked
\* by a caller thread it leaves the Dispatcher polling, dequeuing and
\* updating env; invoked by the Dispatcher (command 7) it keeps the
\* Dispatcher inside the call, and until it returns no datagram is dequeued
\* and env does not change, whatever is enqueued meanwhile.
C10_OnlyInvokerHeld ==
    /\ [](dpc[1] = "in_smart_goto" <=> Active(sg["dispatcher"]))
    /\ [][Active(sg["dispatcher"]) =>
            (env' = env /\ dispatched' = dispatched
             /\ Len(receive_queue') >= Len(receive_queue))]_vars

C10_Witness ==
    /\ dpc[1] = "in_smart_goto"
    /\ sg["dispatcher"].updates >= 1
    /\ Active(sg["caller"])
    /\ receive_queue # << >>
    /\ Head(receive_queue).command = 0
    /\ env = << >>

(***************************************************************************)
(* Properties of the navigation loop.                                      *)
(***************************************************************************)
\* C11: once smart_goto has left its navigation loop, the commanded
\* velocity is the zero 4-vector throughout the hold (the 0.5 s sleep), no
\* other thread having been inside smart_goto meanwhile.
C11_ZeroDuringHold ==
    \A t \in Threads :
        (sg[t].pc = "hold" /\ ~sg[t].overlap) => t_speed = Zero4

\* C12: smart_goto leaves its loop exactly when a tick finds the position
\* within accuracy and the rates still: a call that is past the loop made
\* its last evaluation with both true, and a call that starts another
\* iteration has not yet seen both true.
C12_LoopLeftExactlyWhenReached ==
    \A t \in Threads :
        /\ sg[t].pc \in {"hold", "returned"} => sg[t].last = "yes"
        /\ sg[t].pc = "body" => sg[t].last # "yes"

\* C13: every velocity smart_goto writes to the vehicle has vertical
\* velocity 0 and yaw rate 0, and a call that has written a velocity has
\* called goto_yaw before.
C13_HorizontalVelocityAfterYaw ==
    /\ t_speed[3] = 0
    /\ t_speed[4] = 0
    /\ \A t \in Threads : sg[t].updates >= 1 => Len(sg[t].yawCalls) = 1

C13_Witness ==
    /\ t_speed = <<1, 1, 0, 0>>
    /\ sg["caller"].pc = "loop"
    /\ sg["caller"].updates >= 1
    /\ sg["caller"].yawCalls = <<4>>

(***************************************************************************)
(* Properties of the receive queue and of the Publisher.                   *)
(***************************************************************************)
\* C14: between two tests of its loop condition (one tick, ending in the
\* 50 ms sleep) the Dispatcher removes at most one datagram from the queue.
C14_OneDatagramPerTick == \A r \in Runs : tickGets[r] <= 1

C14_Witness ==
    /\ tickGets[1] = 1
    /\ dpc[1] = "while"
    /\ receive_queue # << >>
    /\ running

\* C15: while update_swarm_control is reading env (compute_swarm_velocity
\* is in progress on some thread) no upsert changes env.
C15_EnvAccessExclusive ==
    [][(\E t \in Threads : sg[t].pc = "compute") => env' = env]_vars

\* A Listener puts, or fails to put, the packet it holds (lines 116-120).
PutStep(r) == message[r] # << >> /\ message'[r] = << >>

\* C16: the queue applies no backpressure.  Nothing is lost: every valid
\* datagram a Listener has received is about to be put, queued, held by a
\* Dispatcher or dispatched.  The put never blocks: a Listener holding a
\* packet can always take its step.  The put never rejects: at every length
\* of the queue it appends the valid payload, making the queue one longer.
\* So the length of the queue is the number of valid arrivals less the
\* number of datagrams the Dispatchers removed, one per tick at most.
C16_NoBackpressure ==
    /\ [](Len(ValidPayloads(recvLog)) =
            Len(receive_queue) + Len(dispatched) + HeldStates + PendingValid)
    /\ [](\A r \in Runs : message[r] # << >> => ENABLED L_Put(r))
    /\ [][\A r \in Runs :
            (PutStep(r) /\ message[r][1].valid) =>
                receive_queue' = Append(receive_queue, message[r][1].payload)]_vars

\* Valid datagrams arrived faster than the Dispatcher's ticks: all
\* MaxBacklog of them are queued, more than any smaller bound, while the
\* Dispatcher polls.
C16_Witness ==
    /\ Len(receive_queue) = MaxBacklog
    /\ Len(recvLog) = MaxBacklog
    /\ running
    /\ dpc[1] \in {"while", "check", "get"}

\* C17: no failure ends the Publisher: it is in its loop or has left it
\* after running became False, and every datagram it sends has command 0.
C17_PublisherSurvivesFailures ==
    /\ \A r \in Runs : ppc[r] \in {"idle", "while", "body", "done"}
    /\ \A r \in Runs : ppc[r] = "done" => ~running
    /\ \A k \in 1..Len(lastSent) : lastSent[k].command = 0

\* A cycle failed and the Publisher is in a later cycle, having sent.
C17_Witness ==
    /\ pubFailed[1]
    /\ ppc[1] = "body"
    /\ running
    /\ lastSent # << >>

\* C18: env never holds an entry keyed by the agent's own id.
C18_OwnIdNeverStored == OwnId \notin DOMAIN env

\* start() has been called at most once: one Listener and one Dispatcher.
OneDispatcher == \A r \in Runs : r # 1 => dpc[r] = "idle"

\* C19: with one Listener and one Dispatcher, the datagrams handed to
\* process_incoming_state, followed by the one the Dispatcher holds and
\* those still queued, are the datagrams enqueued, in the order of enqueuing
\* (none twice, none skipped, none overtaking), and the get that follows the
\* empty() check finds the queue non-empty.
C19_FifoOnceAndGetSucceeds ==
    /\ OneDispatcher => enqueued = dispatched \o incoming_state[1] \o receive_queue
    /\ OneDispatcher => (dpc[1] = "get" => receive_queue # << >>)
    /\ OneDispatcher => (Len(dispatched) = 0 => dpc[1] # "crashed")

C19_Witness ==
    /\ Len(dispatched) = 2
    /\ dispatched[1] # dispatched[2]
    /\ dispatched = enqueued
    /\ dpc[1] = "while"
    /\ OneDispatcher

====
